---- MODULE Spec2Model ----
(***************************************************************************)
(* Multi-view image dataset of threestudio/data/multi_image.py:            *)
(* the shared configuration object, the transform manifest, the files on   *)
(* disk, and one dataset object (MultiImageIterableDataset for the train   *)
(* split, MultiImageDataset for val/test) with its progressive-resolution  *)
(* scheduler.                                                              *)
(*                                                                         *)
(* Tensors are modelled by what the claims observe of them: their shape    *)
(* (B, H, W) and how often the pixel grid was divided by the focal length; *)
(* the jitter get_rays adds is not observed.  Floating-point numbers are   *)
(* exact rationals <<numerator, denominator>>; angles are whole degrees    *)
(* that are multiples of 90, for which sin and cos are exact.              *)
(***************************************************************************)
EXTENDS Integers, Sequences, FiniteSets, TLC

VARIABLES
    meta,     \* the parsed transform manifest: meta.frames
    files,    \* the paths that exist on disk
    cfg,      \* the MultiImageDataModuleConfig object shared by the datasets
    status,   \* "none" | "ready" (constructed) | "failed" (__init__ raised)
    self,     \* the fields of the dataset object
    last      \* the last call: operation, argument, exception, what it called, result

vars == <<meta, files, cfg, status, self, last>>

-----------------------------------------------------------------------------
\* Bounds of the model.

MaxTiers == 3
MaxFrames == 3
MaxDiv == 2
MaxDeleted == 1

Resolutions == {64, 128}
Milestones == {100, 500}
Steps == {0, 50, 100, 300, 500, 900}
PolarAngles == {0, 90}
ElevationOffsets == {0, 90}
Distances == {<<2, 1>>, <<4, 1>>, <<8, 1>>}
ReferenceDistances == {<<19, 5>>, <<1, 1>>}
Splits == {"train", "val", "test"}

SeqsUpTo(S, n) == UNION {[1..k -> S] : k \in 0..n}

-----------------------------------------------------------------------------
\* Exact rational arithmetic standing in for Python floats.

Abs(n) == IF n < 0 THEN -n ELSE n

RECURSIVE GCD(_, _)
GCD(a, b) == IF b = 0 THEN a ELSE GCD(b, a % b)

Rat(n, d) ==
    LET s == IF d < 0 THEN -1 ELSE 1
        g == GCD(Abs(n), Abs(d))
    IN  <<(s * n) \div g, (s * d) \div g>>

RatMul(a, b) == Rat(a[1] * b[1], a[2] * b[2])
RatDiv(a, b) == Rat(a[1] * b[2], a[2] * b[1])
RatSub(a, b) == Rat(a[1] * b[2] - b[1] * a[2], a[2] * b[2])
RatNeg(a) == <<-a[1], a[2]>>
RatAbs(a) == <<Abs(a[1]), a[2]>>
RatAdd(a, b) == Rat(a[1] * b[2] + b[1] * a[2], a[2] * b[2])
RatLess(a, b) == a[1] * b[2] < b[1] * a[2]
RatInt(n) == <<n, 1>>

\* Python's min() over a non-empty list: the first smallest element.
RECURSIVE PyMin(_)
PyMin(xs) ==
    IF Len(xs) = 1 THEN xs[1]
    ELSE LET m == PyMin(Tail(xs))
         IN  IF RatLess(m, xs[1]) THEN m ELSE xs[1]

-----------------------------------------------------------------------------
\* Values.

None == [kind |-> "None"]
NoObject == [cls |-> "none"]
NoCall == [op |-> "none", arg |-> 0, err |-> "none", calls |-> <<>>,
           warned |-> FALSE, reload |-> FALSE, size_ind |-> 0, ret |-> None]

\* cfg.height / cfg.width: an int or a list of ints (isinstance(x, int)).
IntValue(n) == [kind |-> "int", list |-> <<n>>]
ListValue(xs) == [kind |-> "list", list |-> xs]
NonDecreasing(xs) == \A i \in 1..(Len(xs) - 1) : xs[i] <= xs[i + 1]

\* Progressive resolution: a tier is never smaller than the one before it.
SizeOptions ==
    {IntValue(n) : n \in Resolutions}
    \cup {ListValue(xs) : xs \in {ys \in SeqsUpTo(Resolutions, MaxTiers) : NonDecreasing(ys)}}

\* cfg.resolution_milestones, ascending as bisect needs them.
MilestoneOptions == {ms \in SeqsUpTo(Milestones, MaxTiers - 1) : NonDecreasing(ms)}

\* A manifest frame: the file path and the [polar, azimuth, distance] triple.
Frame(stem, polar, azimuth, distance) ==
    [file_path |-> [stem |-> stem, suffix |-> "_rgba.png"],
     latlon |-> <<polar, azimuth, distance>>]

Stems == <<"a", "b", "c", "d">>
Azimuths == <<0, 90, 180, 270>>

BaseMeta == [dir |-> "data",
             frames |-> <<Frame("a", 0, 0, <<2, 1>>), Frame("b", 0, 90, <<4, 1>>)>>]

\* Manifests whose frames differ in their distances.
Manifests ==
    {[dir |-> "data",
      frames |-> [i \in 1..Len(ds) |-> Frame(Stems[i], 0, Azimuths[i], ds[i])]] :
        ds \in SeqsUpTo(Distances, MaxFrames)}

\* Manifests whose frames differ in their polar angles.
PoseManifests ==
    {[dir |-> "data",
      frames |-> [i \in 1..Len(ps) |-> Frame(Stems[i], ps[i], Azimuths[i], <<2, 1>>)]] :
        ps \in SeqsUpTo(PolarAngles, MaxFrames)}

\* The path the loader joins from the manifest's directory and a frame's file_path.
JoinPath(dir, fp) == [dir |-> dir, stem |-> fp.stem, suffix |-> fp.suffix]

\* str.replace("_rgba.png", suffix): a path without the pattern is left as it is.
ReplaceSuffix(path, suffix) ==
    IF path.suffix = "_rgba.png" THEN [path EXCEPT !.suffix = suffix] ELSE path

AllFiles(m) ==
    UNION {{JoinPath(m.dir, m.frames[i].file_path),
            ReplaceSuffix(JoinPath(m.dir, m.frames[i].file_path), "_depth.png"),
            ReplaceSuffix(JoinPath(m.dir, m.frames[i].file_path), "_normal.png")} :
                i \in 1..Len(m.frames)}

-----------------------------------------------------------------------------
\* load_transform: the manifest becomes the pose lists of the shared config.

\* The factor taken from the first frame instead of the nearest one.
ScaleFactorFirst(c, distances) == RatDiv(c.default_camera_distance, distances[1])

\* One global factor, computed from the distances read from the manifest.
ScaleFactor(c, distances) == RatDiv(c.default_camera_distance, PyMin(distances))

LoadTransform(c, m) ==
    LET n == Len(m.frames)
        paths == [i \in 1..n |-> JoinPath(m.dir, m.frames[i].file_path)]
        elevs == [i \in 1..n |-> -m.frames[i].latlon[1] + c.default_elevation_deg]
        azims == [i \in 1..n |-> m.frames[i].latlon[2]]
        dists == [i \in 1..n |-> m.frames[i].latlon[3]]
        read == [c EXCEPT !.image_paths = paths,
                          !.default_elevation_degs = elevs,
                          !.default_azimuth_degs = azims,
                          !.default_camera_distances = dists]
    IN  IF n = 0
        THEN \* min() of an empty list raises
             [err |-> "ValueError", cfg |-> read]
        ELSE [err |-> "none",
              cfg |-> [read EXCEPT !.default_camera_distances =
                          [i \in 1..n |-> RatMul(dists[i], ScaleFactor(c, dists))]]]

-----------------------------------------------------------------------------
\* setup: camera positions and the look-at basis.

CosDeg(a) == CASE a % 360 = 0 -> 1 [] a % 360 = 90 -> 0
               [] a % 360 = 180 -> -1 [] a % 360 = 270 -> 0
SinDeg(a) == CosDeg(a - 90)

Zero3 == <<RatInt(0), RatInt(0), RatInt(0)>>
UpVector == <<RatInt(0), RatInt(0), RatInt(1)>>

CameraPosition(el, az, d) ==
    <<RatMul(d, RatInt(CosDeg(el) * CosDeg(az))),
      RatMul(d, RatInt(CosDeg(el) * SinDeg(az))),
      RatMul(d, RatInt(SinDeg(el)))>>

Sub3(a, b) == [i \in 1..3 |-> RatSub(a[i], b[i])]
Neg3(a) == [i \in 1..3 |-> RatNeg(a[i])]

Cross(a, b) ==
    <<RatSub(RatMul(a[2], b[3]), RatMul(a[3], b[2])),
      RatSub(RatMul(a[3], b[1]), RatMul(a[1], b[3])),
      RatSub(RatMul(a[1], b[2]), RatMul(a[2], b[1]))>>

\* F.normalize: v / max(||v||, eps).  Every vector met here has at most one
\* non-zero component, so its norm is the sum of the absolute values; the zero
\* vector is divided by eps and stays the zero vector.
Normalize(v) ==
    LET norm == RatAdd(RatAbs(v[1]), RatAdd(RatAbs(v[2]), RatAbs(v[3])))
    IN  IF norm = RatInt(0) THEN v ELSE [i \in 1..3 |-> RatDiv(v[i], norm)]

CameraToWorld(el, az, d) ==
    LET position == CameraPosition(el, az, d)
        lookat == Normalize(Sub3(Zero3, position))
        right == Normalize(Cross(lookat, UpVector))
        up == Normalize(Cross(right, lookat))
    IN  [right |-> right, up |-> up, back |-> Neg3(lookat), position |-> position]

Geometry(c) ==
    [i \in 1..Len(c.default_elevation_degs) |->
        CameraToWorld(c.default_elevation_degs[i], c.default_azimuth_degs[i],
                      c.default_camera_distances[i])]

-----------------------------------------------------------------------------
\* setup: the resolution tiers and their milestones.

\* The tier lists without the check of the milestone count.
TiersUnchecked(c) ==
    LET heights == c.height.list
        widths == c.width.list
    IN  IF Len(heights) # Len(widths)
        THEN [err |-> "AssertionError:heights/widths", warned |-> FALSE,
              heights |-> heights, widths |-> widths, resolution_milestones |-> <<>>]
        ELSE IF Len(heights) = 1 /\ Len(widths) = 1
        THEN [err |-> "none", warned |-> Len(c.resolution_milestones) > 0,
              heights |-> heights, widths |-> widths, resolution_milestones |-> <<-1>>]
        ELSE IF Len(heights) = 0
        THEN [err |-> "IndexError", warned |-> FALSE,
              heights |-> heights, widths |-> widths, resolution_milestones |-> <<>>]
        ELSE [err |-> "none", warned |-> FALSE,
              heights |-> heights, widths |-> widths,
              resolution_milestones |-> <<-1>> \o c.resolution_milestones]

Tiers(c) ==
    LET heights == c.height.list
        widths == c.width.list
    IN  IF Len(heights) # Len(widths)
        THEN [err |-> "AssertionError:heights/widths", warned |-> FALSE,
              heights |-> heights, widths |-> widths, resolution_milestones |-> <<>>]
        ELSE IF Len(heights) = 1 /\ Len(widths) = 1
        THEN [err |-> "none", warned |-> Len(c.resolution_milestones) > 0,
              heights |-> heights, widths |-> widths, resolution_milestones |-> <<-1>>]
        ELSE IF Len(heights) # Len(c.resolution_milestones) + 1
        THEN [err |-> "AssertionError:milestones", warned |-> FALSE,
              heights |-> heights, widths |-> widths, resolution_milestones |-> <<>>]
        ELSE [err |-> "none", warned |-> FALSE,
              heights |-> heights, widths |-> widths,
              resolution_milestones |-> <<-1>> \o c.resolution_milestones]

\* One pixel grid per tier: its shape and how often its first two components
\* have been divided by a focal length (0: the unit-focal grid).
DirectionsUnitFocals(heights, widths) ==
    [i \in 1..Len(heights) |-> [H |-> heights[i], W |-> widths[i], div |-> 0]]

\* 0.5 * height / tan(0.5 * fovy), kept symbolic in height and fovy.
FocalLengths(c, heights) ==
    [i \in 1..Len(heights) |-> [height |-> heights[i], fovy_deg |-> c.default_fovy_deg]]

-----------------------------------------------------------------------------
\* set_rays and load_images.

\* self.directions_unit_focal is held as the index of the cache entry it
\* refers to.  directions is a view of that cached grid, so the division
\* by the focal length is written into the cache entry itself.  The rays keep
\* the grid's shape and the number of divisions; the projection uses
\* self.width / self.height.
SetRays(s, c) ==
    LET k == s.directions_unit_focal + 1
        directions == [s.directions_unit_focals[k] EXCEPT !.div = @ + 1]
        B == Len(s.c2w)
    IN  [s EXCEPT !.directions_unit_focals[k] = directions,
                  !.rays_o = [B |-> B, H |-> directions.H, W |-> directions.W],
                  !.rays_d = [B |-> B, H |-> directions.H, W |-> directions.W,
                              div |-> directions.div, focal |-> s.focal_length],
                  !.mvp_mtx = [B |-> B, fovy_deg |-> c.default_fovy_deg,
                               aspect |-> <<s.width, s.height>>]]

Tensor(B, H, W) == [kind |-> "tensor", B |-> B, H |-> H, W |-> W]

\* The loop over cfg.image_paths from frame i on: the first missing file
\* raises; a modality that is not required is set to None in every iteration.
RECURSIVE LoadLoop(_, _, _, _)
LoadLoop(s, c, fs, i) ==
    IF i > Len(c.image_paths) THEN [err |-> "none", self |-> s]
    ELSE LET path == c.image_paths[i]
             s1 == IF c.requires_depth THEN s ELSE [s EXCEPT !.depth = None]
             s2 == IF c.requires_normal THEN s1 ELSE [s1 EXCEPT !.normal = None]
         IN  IF path \notin fs
             THEN [err |-> "AssertionError:image", self |-> s]
             ELSE IF c.requires_depth /\ ReplaceSuffix(path, "_depth.png") \notin fs
             THEN [err |-> "AssertionError:depth", self |-> s]
             ELSE IF c.requires_normal /\ ReplaceSuffix(path, "_normal.png") \notin fs
             THEN [err |-> "AssertionError:normal", self |-> s1]
             ELSE LoadLoop(s2, c, fs, i + 1)

\* The end of load_images: the stacked tensors at (self.height, self.width).
StackImages(t, c) ==
    LET images == Tensor(Len(c.image_paths), t.height, t.width)
    IN  [t EXCEPT !.rgb = images,
                  !.mask = images,
                  !.depth = IF c.requires_depth THEN images ELSE @,
                  !.normal = IF c.requires_normal THEN images ELSE @]

LoadImages(s, c, fs) ==
    LET loop == LoadLoop(s, c, fs, 1)
    IN  IF loop.err # "none" THEN loop
        ELSE [err |-> "none", self |-> StackImages(loop.self, c)]

-----------------------------------------------------------------------------
\* The resolution scheduler.

\* bisect.bisect_right(a, x): binary search, 0-based insertion point.
RECURSIVE BisectLoop(_, _, _, _)
BisectLoop(a, x, lo, hi) ==
    IF lo >= hi THEN lo
    ELSE LET mid == (lo + hi) \div 2
         IN  IF x < a[mid + 1] THEN BisectLoop(a, x, lo, mid)
             ELSE BisectLoop(a, x, mid + 1, hi)

\* bisect_left in place of bisect_right: a step equal to a milestone stays below it.
BisectLeft(a, x) == Cardinality({i \in 1..Len(a) : a[i] < x})

BisectRight(a, x) == BisectLoop(a, x, 0, Len(a))

\* size_ind of update_step_.
SizeInd(milestones, global_step) == BisectRight(milestones, global_step) - 1

\* xs[i] for a Python list xs and an index i >= 0.
At(xs, i) == xs[i + 1]

\* update_step_ without the early return on an unchanged height.
UpdateStepAlways(s, c, fs, global_step) ==
    LET size_ind == SizeInd(s.resolution_milestones, global_step)
        s2 == [s EXCEPT !.height = At(s.heights, size_ind),
                        !.prev_height = At(s.heights, size_ind),
                        !.width = At(s.widths, size_ind),
                        !.directions_unit_focal = size_ind,
                        !.focal_length = At(s.focal_lengths, size_ind)]
        loaded == LoadImages(SetRays(s2, c), c, fs)
    IN  [err |-> loaded.err, self |-> loaded.self,
         calls |-> <<"set_rays", "load_images">>, size_ind |-> size_ind]

\* update_step_ on the object s for global_step.
UpdateStepBase(s, c, fs, global_step) ==
    LET size_ind == SizeInd(s.resolution_milestones, global_step)
        s1 == [s EXCEPT !.height = At(s.heights, size_ind)]
    IN  IF s1.height = s1.prev_height
        THEN [err |-> "none", self |-> s1, calls |-> <<>>, size_ind |-> size_ind]
        ELSE LET s2 == [s1 EXCEPT !.prev_height = s1.height,
                                  !.width = At(s.widths, size_ind),
                                  !.directions_unit_focal = size_ind,
                                  !.focal_length = At(s.focal_lengths, size_ind)]
                 loaded == LoadImages(SetRays(s2, c), c, fs)
             IN  [err |-> loaded.err, self |-> loaded.self,
                  calls |-> <<"set_rays", "load_images">>, size_ind |-> size_ind]

-----------------------------------------------------------------------------
\* Initial states: the configuration as the user wrote it, nothing loaded.

DefaultCfg ==
    [transform_fp |-> "data/transforms.json",
     image_paths |-> <<>>,
     height |-> IntValue(64),
     width |-> IntValue(64),
     resolution_milestones |-> <<>>,
     default_elevation_degs |-> <<>>,
     default_azimuth_degs |-> <<>>,
     default_camera_distances |-> <<>>,
     default_elevation_deg |-> 0,
     default_camera_distance |-> <<19, 5>>,
     default_fovy_deg |-> 60,
     use_random_camera |-> TRUE,
     requires_depth |-> FALSE,
     requires_normal |-> FALSE]

TypeOK ==
    /\ status \in {"none", "ready", "failed"}
    /\ files \subseteq AllFiles(meta)
    /\ last.op \in {"none", "setup", "update_step_", "update_step", "collate",
                    "__len__", "__getitem__"}

InitWith(c, m) ==
    /\ meta = m
    /\ files = AllFiles(m)
    /\ cfg = c
    /\ status = "none"
    /\ self = NoObject
    /\ last = NoCall

\* Resolution tiers and milestones vary; the manifest is fixed.
Init ==
    \E h \in SizeOptions, w \in SizeOptions, ms \in MilestoneOptions :
        InitWith([DefaultCfg EXCEPT !.height = h, !.width = w,
                                    !.resolution_milestones = ms], BaseMeta)

\* The optional modalities and the random camera vary; two tiers.
InitFlags ==
    \E rc \in BOOLEAN, rd \in BOOLEAN, rn \in BOOLEAN, n \in 1..2 :
        InitWith([DefaultCfg EXCEPT
                    !.height = ListValue([i \in 1..n |-> IF i = 1 THEN 64 ELSE 128]),
                    !.width = ListValue([i \in 1..n |-> IF i = 1 THEN 64 ELSE 128]),
                    !.resolution_milestones = [i \in 1..(n - 1) |-> 100 * i],
                    !.use_random_camera = rc,
                    !.requires_depth = rd,
                    !.requires_normal = rn], BaseMeta)

\* The manifest's distances and the reference distance vary; one tier.
InitManifest ==
    \E m \in Manifests, d \in ReferenceDistances :
        InitWith([DefaultCfg EXCEPT !.default_camera_distance = d], m)

\* The manifest's polar angles and the elevation offset vary; one tier.
InitPose ==
    \E m \in PoseManifests, e \in ElevationOffsets :
        InitWith([DefaultCfg EXCEPT !.default_elevation_deg = e], m)

-----------------------------------------------------------------------------
\* Operations.

Call(op, arg, err, calls) ==
    [NoCall EXCEPT !.op = op, !.arg = arg, !.err = err, !.calls = calls]

\* MultiImageIterableDataset(cfg, "train") / MultiImageDataset(cfg, split):
\* __init__ runs setup; an exception leaves no object.
Setup(split) ==
    \E lt \in {LoadTransform(cfg, meta)} :
    \E tiers \in {Tiers(lt.cfg)} :
    LET c == lt.cfg
        reload == cfg.image_paths # <<>>
        Fail(err, calls, warned) ==
            /\ status' = "failed"
            /\ self' = NoObject
            /\ last' = [Call("setup", 0, err, calls) EXCEPT
                           !.reload = reload, !.warned = warned]
        object ==
            [cls |-> IF split = "train" THEN "MultiImageIterableDataset"
                     ELSE "MultiImageDataset",
             random_pose_generator |->
                 IF ~c.use_random_camera THEN "unset"
                 ELSE IF split = "train" THEN "RandomCameraIterableDataset"
                 ELSE "RandomCameraDataset",
             c2w |-> Geometry(c),
             elevation_degs |-> c.default_elevation_degs,
             azimuth_degs |-> c.default_azimuth_degs,
             camera_distances |-> c.default_camera_distances,
             heights |-> tiers.heights,
             widths |-> tiers.widths,
             resolution_milestones |-> tiers.resolution_milestones,
             directions_unit_focals |-> DirectionsUnitFocals(tiers.heights, tiers.widths),
             focal_lengths |-> FocalLengths(c, tiers.heights),
             height |-> At(tiers.heights, 0),
             width |-> At(tiers.widths, 0),
             directions_unit_focal |-> 0,
             focal_length |-> At(FocalLengths(c, tiers.heights), 0),
             rays_o |-> None, rays_d |-> None, mvp_mtx |-> None,
             rgb |-> None, mask |-> None, depth |-> None, normal |-> None,
             prev_height |-> At(tiers.heights, 0)]
    IN  /\ cfg' = c
        /\ UNCHANGED <<meta, files>>
        /\ IF lt.err # "none" THEN Fail(lt.err, <<"load_transform">>, FALSE)
           ELSE IF tiers.err # "none" THEN Fail(tiers.err, <<"load_transform">>, FALSE)
           ELSE \E loaded \in {LoadImages(SetRays(object, c), c, files)} :
                LET calls == <<"load_transform", "set_rays", "load_images">>
                IN  IF loaded.err # "none" THEN Fail(loaded.err, calls, tiers.warned)
                    ELSE /\ status' = "ready"
                         /\ self' = loaded.self
                         /\ last' = [Call("setup", 0, "none", calls) EXCEPT
                                        !.reload = reload, !.warned = tiers.warned]

\* MultiImageDataBase.update_step_
UpdateStep_(global_step) ==
    /\ status = "ready"
    /\ \E r \in {UpdateStepBase(self, cfg, files, global_step)} :
            /\ \A k \in 1..Len(r.self.directions_unit_focals) :
                    r.self.directions_unit_focals[k].div <= MaxDiv
            /\ self' = r.self
            /\ last' = [Call("update_step_", global_step, r.err, r.calls) EXCEPT
                           !.size_ind = r.size_ind]
    /\ UNCHANGED <<meta, files, cfg, status>>

\* MultiImageIterableDataset.update_step
UpdateStep(global_step) ==
    /\ status = "ready"
    /\ self.cls = "MultiImageIterableDataset"
    /\ \E r \in {UpdateStepBase(self, cfg, files, global_step)} :
        LET err == IF r.err # "none" THEN r.err
                   ELSE IF self.random_pose_generator = "unset" THEN "AttributeError"
                   ELSE "none"
        IN  /\ \A k \in 1..Len(r.self.directions_unit_focals) :
                    r.self.directions_unit_focals[k].div <= MaxDiv
            /\ self' = r.self
            /\ last' = [Call("update_step", global_step, err, r.calls) EXCEPT
                           !.size_ind = r.size_ind]
    /\ UNCHANGED <<meta, files, cfg, status>>

\* bool(t) as `not self.depth` evaluates it: None is false, a tensor of more
\* than one element raises, a tensor of one element is its value.
TensorTruth(t) ==
    IF t.kind = "None" THEN {"False"}
    ELSE IF t.B * t.H * t.W > 1 THEN {"RuntimeError"}
    ELSE {"True", "False"}

\* t[idx] for a tensor t: the frame taken and its resolution.
Frames(t, idx) == [kind |-> "tensor", frame |-> idx, B |-> 1, H |-> t.H, W |-> t.W]

\* MultiImageIterableDataset.collate
Collate ==
    /\ status = "ready"
    /\ self.cls = "MultiImageIterableDataset"
    /\ \E idx \in 1..self.rgb.B, truth \in TensorTruth(self.depth) :
        LET err == IF truth = "RuntimeError" THEN "RuntimeError"
                   ELSE IF truth = "True" /\ self.normal.kind = "None" THEN "TypeError"
                   ELSE "none"
            batch ==
                [kind |-> "batch",
                 idx |-> idx,
                 rays_o |-> Frames(self.rays_o, idx),
                 rays_d |-> Frames(self.rays_d, idx),
                 rgb |-> Frames(self.rgb, idx),
                 mask |-> Frames(self.mask, idx),
                 ref_depth |-> IF truth = "True" THEN Frames(self.depth, idx) ELSE None,
                 ref_normal |-> IF truth = "True" THEN Frames(self.normal, idx) ELSE None,
                 height |-> cfg.height,
                 width |-> cfg.width,
                 random_camera |-> IF cfg.use_random_camera
                                   THEN [kind |-> self.random_pose_generator]
                                   ELSE None]
        IN  last' = [Call("collate", idx, err, <<>>) EXCEPT
                        !.ret = IF err = "none" THEN batch ELSE None]
    /\ UNCHANGED <<meta, files, cfg, status, self>>

\* MultiImageDataset.__len__
DatasetLen ==
    /\ status = "ready"
    /\ self.cls = "MultiImageDataset"
    /\ last' = Call("__len__", 0,
                    IF self.random_pose_generator = "unset" THEN "AttributeError"
                    ELSE "none", <<>>)
    /\ UNCHANGED <<meta, files, cfg, status, self>>

\* MultiImageDataset.__getitem__
DatasetGetItem(index) ==
    /\ status = "ready"
    /\ self.cls = "MultiImageDataset"
    /\ last' = Call("__getitem__", index,
                    IF self.random_pose_generator = "unset" THEN "AttributeError"
                    ELSE "none", <<>>)
    /\ UNCHANGED <<meta, files, cfg, status, self>>

\* The files load_images looks for under the configuration c.
LookedFor(c, m) ==
    {f \in AllFiles(m) :
        \/ f.suffix = "_rgba.png"
        \/ c.requires_depth /\ f.suffix = "_depth.png"
        \/ c.requires_normal /\ f.suffix = "_normal.png"}

\* The environment removes a file that load_images will look for.
DeleteFile(path) ==
    /\ path \in files \cap LookedFor(cfg, meta)
    /\ Cardinality(AllFiles(meta) \ files) < MaxDeleted
    /\ files' = files \ {path}
    /\ UNCHANGED <<meta, cfg, status, self, last>>

Next ==
    \/ \E split \in Splits : Setup(split)
    \/ \E g \in Steps : UpdateStep_(g)
    \/ \E g \in Steps : UpdateStep(g)
    \/ Collate
    \/ DatasetLen
    \/ \E index \in {0} : DatasetGetItem(index)
    \/ \E path \in AllFiles(meta) : DeleteFile(path)

Spec == Init /\ [][Next]_vars
SpecFlags == InitFlags /\ [][Next]_vars
SpecManifest == InitManifest /\ [][Next]_vars
SpecPose == InitPose /\ [][Next]_vars

-----------------------------------------------------------------------------
\* Properties.

UpdateOps == {"update_step_", "update_step"}

\* i is the 0-based index of the largest milestone <= g (the last such entry).
IsLargestMilestoneAtMost(ms, g, i) ==
    /\ i \in 0..(Len(ms) - 1)
    /\ At(ms, i) <= g
    /\ \A j \in 0..(Len(ms) - 1) : At(ms, j) <= g => j <= i /\ At(ms, j) <= At(ms, i)

ExampleTier(g) ==
    CASE g \in {0, 50} -> 0 [] g \in {100, 300} -> 1 [] g \in {500, 900} -> 2

\* C1: for ascending milestones that start with the sentinel -1 and a step
\* g >= 0, the tier index computed by update_step_ is the index of the largest
\* milestone <= g; milestones [-1, 100, 500] map the steps 0, 50, 100, 300,
\* 500, 900 to the tiers 0, 0, 1, 1, 2, 2.
C1_TierIsLargestMilestone ==
    (/\ status = "ready"
     /\ last.op \in UpdateOps
     /\ NonDecreasing(self.resolution_milestones)
     /\ At(self.resolution_milestones, 0) = -1
     /\ last.arg >= 0)
    => /\ IsLargestMilestoneAtMost(self.resolution_milestones, last.arg, last.size_ind)
       /\ self.resolution_milestones = <<-1, 100, 500>>
            => last.size_ind = ExampleTier(last.arg)

C1_Witness ==
    /\ status = "ready"
    /\ last.op = "update_step_"
    /\ self.resolution_milestones = <<-1, 100, 500>>
    /\ last.arg = 500
    /\ last.size_ind = 2

\* The resolution state of the object is that of tier i.
ResolutionStateOf(s, i) ==
    /\ s.height = At(s.heights, i)
    /\ s.width = At(s.widths, i)
    /\ s.focal_length = At(s.focal_lengths, i)
    /\ s.directions_unit_focal = i
    /\ s.rays_d.H = At(s.heights, i) /\ s.rays_d.W = At(s.widths, i)
    /\ s.rays_o.H = At(s.heights, i) /\ s.rays_o.W = At(s.widths, i)
    /\ s.mvp_mtx.aspect = <<At(s.widths, i), At(s.heights, i)>>
    /\ s.rgb.H = At(s.heights, i) /\ s.rgb.W = At(s.widths, i)
    /\ s.mask.H = At(s.heights, i) /\ s.mask.W = At(s.widths, i)

\* C2: after setup and after every update_step_ that returns, the active
\* resolution state (height, width, focal length, grid, rays, MVP, images) is
\* that of the tier selected for the step, also when the new tier has the
\* height of the previous one and another width.
C2_ActiveStateIsSelectedTier ==
    (status = "ready" /\ last.op \in UpdateOps \cup {"setup"} /\ last.err = "none")
    => ResolutionStateOf(self, IF last.op = "setup" THEN 0 ELSE last.size_ind)

\* What update_step_ may recompute or reload.
Loaded(s) ==
    <<s.rays_o, s.rays_d, s.mvp_mtx, s.rgb, s.mask, s.height, s.width,
      s.focal_length, s.prev_height, s.directions_unit_focals>>

\* C3: an update_step_ with the step of the update just before it, and more
\* generally any update that selects the tier that is active, calls neither
\* set_rays nor load_images and leaves rays, MVP, images, height, width, focal
\* length and prev_height as they were.
C3_UpdateIdempotent ==
    [][(/\ status = "ready"
        /\ files' = files
        /\ last'.op \in UpdateOps
        /\ \/ last.op \in UpdateOps /\ last'.arg = last.arg
           \/ last'.size_ind = self.directions_unit_focal)
       => (last'.calls = <<>> /\ Loaded(self') = Loaded(self))]_vars

C3_Witness ==
    /\ status = "ready"
    /\ last.op \in UpdateOps
    /\ last.size_ind > 0
    /\ self.directions_unit_focal = last.size_ind
    /\ self.rays_d.H = At(self.heights, last.size_ind)
    /\ last.calls = <<>>

SetupAssertions == {"AssertionError:heights/widths", "AssertionError:milestones"}

\* C4: with more than one tier configured, setup fails on an assertion unless
\* #heights = #widths = #milestones + 1, and on success the milestones are
\* [-1] followed by the configured ones; with exactly one tier, configured
\* milestones are ignored with a warning and no error, the milestones are [-1]
\* and every later update selects tier 0.
C4_TierValidation ==
    LET nh == Len(cfg.height.list)
        nw == Len(cfg.width.list)
        nm == Len(cfg.resolution_milestones)
        paired == nh = nw /\ nh = nm + 1
    IN  /\ (last.op = "setup" /\ (nh > 1 \/ nw > 1))
            => /\ ~paired => (status = "failed" /\ last.err \in SetupAssertions)
               /\ paired => last.err \notin SetupAssertions
               /\ status = "ready" =>
                    self.resolution_milestones = <<-1>> \o cfg.resolution_milestones
        /\ (last.op = "setup" /\ nh = 1 /\ nw = 1)
            => /\ last.err \notin SetupAssertions
               /\ last.err \in {"none", "AssertionError:image"} => (last.warned <=> nm > 0)
               /\ status = "ready" => self.resolution_milestones = <<-1>>
        /\ (status = "ready" /\ last.op \in UpdateOps /\ nh = 1 /\ nw = 1)
            => (last.size_ind = 0 /\ last.calls = <<>>)

C4_Witness ==
    /\ status = "failed"
    /\ last.op = "setup"
    /\ last.err = "AssertionError:milestones"
    /\ Len(cfg.height.list) = 2 /\ Len(cfg.width.list) = 2
    /\ Len(cfg.resolution_milestones) = 2

\* C5: no partial result: in every state of a constructed dataset, also after
\* an update_step_ whose load_images raised, the rays and the MVP matrices have
\* the resolution of the loaded images.
C5_NoPartialResult ==
    status = "ready"
    => /\ self.rays_d.H = self.rgb.H /\ self.rays_d.W = self.rgb.W
       /\ self.mvp_mtx.aspect = <<self.rgb.W, self.rgb.H>>
       /\ self.prev_height = self.rgb.H

ManifestDistances == [i \in 1..Len(meta.frames) |-> meta.frames[i].latlon[3]]

\* C6: after load_transform every normalized distance is the manifest distance
\* times default_camera_distance / min(manifest distances), in frame order, so
\* the smallest is default_camera_distance; [2, 4, 8] with 3.8 gives
\* [3.8, 7.6, 15.2]; loading again on the same config gives the same.
C6_DistancesNormalized ==
    (cfg.image_paths # <<>> /\ Len(meta.frames) > 0)
    => LET ds == ManifestDistances
           out == cfg.default_camera_distances
           ref == cfg.default_camera_distance
       IN  /\ Len(out) = Len(ds)
           /\ \E k \in 1..Len(ds) :
                /\ \A j \in 1..Len(ds) : ~RatLess(ds[j], ds[k])
                /\ out[k] = ref
                /\ \A i \in 1..Len(ds) : RatMul(out[i], ds[k]) = RatMul(ref, ds[i])
           /\ \A i \in 1..Len(ds) : ~RatLess(out[i], ref)
           /\ (ds = <<<<2, 1>>, <<4, 1>>, <<8, 1>>>> /\ ref = <<19, 5>>)
                => out = <<<<19, 5>>, <<38, 5>>, <<76, 5>>>>

C6_Witness ==
    /\ last.op = "setup"
    /\ last.reload
    /\ ManifestDistances = <<<<4, 1>>, <<2, 1>>, <<8, 1>>>>
    /\ cfg.default_camera_distance = <<19, 5>>
    /\ cfg.default_camera_distances = <<<<38, 5>>, <<19, 5>>, <<76, 5>>>>

\* C7: a frame whose elevation is +90 or -90 degrees, for which
\* cross(forward, up) is the zero vector, makes setup end with an error; no
\* dataset is constructed with a zero right vector.
C7_DegenerateGeometryRaises ==
    status = "ready"
    => \A i \in 1..Len(self.c2w) :
        /\ self.elevation_degs[i] \notin {90, -90}
        /\ self.c2w[i].right # Zero3

\* C8: the ray directions in use are the selected tier's unit-focal grid
\* divided by the focal length exactly once, whatever the sequence of steps.
C8_FocalDivisionOnce ==
    status = "ready" => self.rays_d.div = 1

\* C9: collate ends without error and returns ref_depth, the frame's depth,
\* exactly when requires_depth is set and ref_normal, the frame's normal,
\* exactly when requires_normal is set.
C9_CollateOptionalModalities ==
    last.op = "collate"
    => /\ last.err = "none"
       /\ last.ret.ref_depth =
            (IF cfg.requires_depth THEN Frames(self.depth, last.ret.idx) ELSE None)
       /\ last.ret.ref_normal =
            (IF cfg.requires_normal THEN Frames(self.normal, last.ret.idx) ELSE None)

\* C10: with use_random_camera off no operation dereferences the random-pose
\* generator: update_step, collate, __len__ and __getitem__ raise no
\* AttributeError and the batch has no random_camera entry.
C10_NoRandomCameraDereference ==
    (status = "ready" /\ ~cfg.use_random_camera)
    => /\ last.err # "AttributeError"
       /\ (last.op = "collate" /\ last.err = "none") => last.ret.random_camera = None

====
